---- MODULE Spec2Model ----
(***************************************************************************)
(* dfo: a dotfiles organizer.  For every (target, source) pair declared in *)
(* <repo>/dfo.yaml it replaces $HOME/target by a symlink to the source,    *)
(* after backing up whatever was at the target.                            *)
(*                                                                         *)
(* The model has two layers:                                               *)
(*   - a filesystem (a function from existing absolute paths to nodes)     *)
(*     with the os.* calls the program makes, as Linux executes them;      *)
(*   - the program: getBackupDirName, createBackupDir, fileNeedsUpdating,  *)
(*     backupFile, copyDir, replaceFile and the loop of main (Spec, and    *)
(*     SpecEnv where something else deletes backup directories), and the  *)
(*     start of main: setDefaults, loadConfig, initFromParams and          *)
(*     initWorkDir (SpecBoot).                                             *)
(* A path is the sequence of its components, "/" is <<>>.  filepath.Join   *)
(* of clean paths is concatenation.                                        *)
(***************************************************************************)
EXTENDS Integers, Sequences, FiniteSets, TLC

VARIABLES
    fs,         \* the filesystem: existing absolute path -> node
    config,     \* dfoConfig: HomeDir, WorkDir, RepoDir, GitRepo, Noop, Backup,
                \* UpdateGit
    decl,       \* the pairs of dfo.yaml in file order
    dotfiles,   \* dfoState.dotfiles: the pairs in the order main ranges the map
    backupDir,  \* dfoState.backupDir, <<>> is the empty string
    pc,         \* position of main
    i,          \* index of the pair of dfo.dotfiles being processed
    now,        \* the clock read by time.Now()
    nextIno,    \* next free inode number
    run,        \* number of the current invocation of the program
    ops,        \* history: the filesystem mutations of this run, in order
    seen,       \* history: what each processed pair looked like when inspected
    fs0,        \* history: the filesystem when this run started
    startedAt,  \* history: the clock when this run started
    envDeletes, \* number of times something else deleted the backup directory
    errs,       \* history: the errors the steps of this run returned, in order
    input       \* what the process is started with: umask, flags, config.yaml

vars == <<fs, config, decl, dotfiles, backupDir, pc, i, now, nextIno, run,
          ops, seen, fs0, startedAt, envDeletes, errs, input>>

(***************************************************************************)
(* Bounds of the model.                                                    *)
(***************************************************************************)
MaxPairs == 2       \* pairs declared in dfo.yaml
MaxRuns == 2        \* consecutive invocations of the program
MaxFollow == 3      \* symlinks followed in one path lookup before ELOOP
MaxEnvDeletes == 1  \* external deletions of the backup directory

\* permission bits 0755, passed to os.Mkdir and os.MkdirAll
Perm0755 == 493

(***************************************************************************)
(* Filesystem nodes.                                                       *)
(***************************************************************************)
DirNode(perm) == [kind |-> "dir", ino |-> 0, perm |-> perm, dest |-> <<>>]
FileNode(ino) == [kind |-> "file", ino |-> ino, perm |-> 0, dest |-> <<>>]
SymNode(dest, ino) == [kind |-> "symlink", ino |-> ino, perm |-> 0, dest |-> dest]
NoNode == [kind |-> "none", ino |-> 0, perm |-> 0, dest |-> <<>>]

IsPrefix(p, q) == Len(p) <= Len(q) /\ SubSeq(q, 1, Len(p)) = p
Parent(p) == SubSeq(p, 1, Len(p) - 1)

Ok(f) == [fs |-> f, err |-> "", log |-> <<>>]
Fail(f, e) == [fs |-> f, err |-> e, log |-> <<>>]
Did(f, op, p) == [fs |-> f, err |-> "", log |-> <<[op |-> op, path |-> p]>>]

\* two steps in sequence: the outcome of the second, after the mutations of
\* both
Then(a, b) == [fs |-> b.fs, err |-> b.err, log |-> a.log \o b.log]

(***************************************************************************)
(* Path lookup.  cur is a resolved existing path, rest the components      *)
(* still to walk.  A symlink in the middle of a path is always followed,   *)
(* the last component only when follow is set.  The result names the       *)
(* physical path of the entry; with ENOENT, creatable tells that only the  *)
(* last component is missing, so that the entry can be created at path.    *)
(***************************************************************************)
RECURSIVE Walk(_, _, _, _, _)
Walk(f, cur, rest, follow, fuel) ==
    IF rest = <<>> THEN [err |-> "", path |-> cur, creatable |-> FALSE]
    ELSE IF f[cur].kind # "dir"
    THEN [err |-> "ENOTDIR", path |-> cur, creatable |-> FALSE]
    ELSE LET nxt == Append(cur, Head(rest))
             tl == Tail(rest)
         IN  IF nxt \notin DOMAIN f
             THEN [err |-> "ENOENT", path |-> nxt, creatable |-> (tl = <<>>)]
             ELSE IF f[nxt].kind = "symlink" /\ (tl # <<>> \/ follow)
             THEN IF fuel = 0
                  THEN [err |-> "ELOOP", path |-> nxt, creatable |-> FALSE]
                  ELSE Walk(f, <<>>, f[nxt].dest \o tl, follow, fuel - 1)
             ELSE Walk(f, nxt, tl, follow, fuel)

Lookup(f, p, follow) == Walk(f, <<>>, p, follow, MaxFollow)

\* os.Lstat: does not follow a symlink in the last component
Lstat(f, p) ==
    LET r == Lookup(f, p, FALSE)
    IN  [err |-> r.err, node |-> IF r.err = "" THEN f[r.path] ELSE NoNode]

\* os.Stat: follows symlinks to the end
Stat(f, p) ==
    LET r == Lookup(f, p, TRUE)
    IN  [err |-> r.err, node |-> IF r.err = "" THEN f[r.path] ELSE NoNode]

\* os.IsNotExist: true of ENOENT only
IsNotExist(e) == e = "ENOENT"

\* os.IsExist
IsExist(e) == e = "EEXIST"

\* os.Readlink: the destination string stored in the symlink
Readlink(f, p) ==
    LET l == Lstat(f, p)
    IN  IF l.err # "" THEN [err |-> l.err, dest |-> <<>>]
        ELSE IF l.node.kind # "symlink" THEN [err |-> "EINVAL", dest |-> <<>>]
        ELSE [err |-> "", dest |-> l.node.dest]

\* creation of one entry at p: the parent must be a directory and p must not
\* exist (a symlink at p, dangling or not, is an existing entry)
Create(f, p, node, op) ==
    LET r == Lookup(f, p, FALSE)
    IN  IF r.err = "" THEN Fail(f, "EEXIST")
        ELSE IF r.err = "ENOENT" /\ r.creatable
        THEN Did(f @@ (r.path :> node), op, r.path)
        ELSE Fail(f, r.err)

\* the bits set in both a and b
RECURSIVE BitAnd(_, _)
BitAnd(a, b) ==
    IF a = 0 \/ b = 0 THEN 0
    ELSE (a % 2) * (b % 2) + 2 * BitAnd(a \div 2, b \div 2)

\* os.Mkdir: the permission bits are the ones asked for "before umask"
Mkdir(f, p, perm) ==
    Create(f, p, DirNode(BitAnd(perm, 511 - input.umask)), "mkdir")

\* os.Symlink(dest, p)
Symlink(f, dest, p, ino) == Create(f, p, SymNode(dest, ino), "symlink")

\* os.Link(old, new): linkat without AT_SYMLINK_FOLLOW, a symlink at old is
\* linked itself; a directory cannot be hard-linked
Link(f, old, new) ==
    LET r == Lookup(f, old, FALSE)
    IN  IF r.err # "" THEN Fail(f, r.err)
        ELSE IF f[r.path].kind = "dir" THEN Fail(f, "EPERM")
        ELSE Create(f, new, f[r.path], "link")

\* os.MkdirAll: nothing to do when p is a directory, an error when it is
\* something else; otherwise the parent first, then os.Mkdir(p), whose
\* failure is forgiven when p turns out to be a directory
RECURSIVE MkdirAll(_, _, _)
MkdirAll(f, p, perm) ==
    LET st == Stat(f, p)
    IN  IF st.err = ""
        THEN IF st.node.kind = "dir" THEN Ok(f) ELSE Fail(f, "ENOTDIR")
        ELSE LET up == IF Len(p) > 1 THEN MkdirAll(f, Parent(p), perm) ELSE Ok(f)
             IN  IF up.err # "" THEN up
                 ELSE LET mk == Mkdir(up.fs, p, perm)
                          l == Lstat(up.fs, p)
                      IN  IF mk.err = ""
                          THEN [fs |-> mk.fs, err |-> "", log |-> up.log \o mk.log]
                          ELSE IF l.err = "" /\ l.node.kind = "dir"
                          THEN [fs |-> up.fs, err |-> "", log |-> up.log]
                          ELSE [fs |-> up.fs, err |-> mk.err, log |-> up.log]

\* the names in the directory at physical path d
Children(f, d) == {q \in DOMAIN f : Len(q) = Len(d) + 1 /\ IsPrefix(d, q)}

\* the owner may list the directory: bit 0400 of its mode
Readable(node) == (node.perm \div 256) % 2 = 1

\* os.Open of a directory for reading
Open(f, p) ==
    LET r == Lookup(f, p, TRUE)
    IN  IF r.err # "" THEN [err |-> r.err, path |-> r.path]
        ELSE IF ~Readable(f[r.path]) THEN [err |-> "EACCES", path |-> r.path]
        ELSE [err |-> "", path |-> r.path]

\* what os.RemoveAll(top) cannot remove: a directory that is not empty and
\* cannot be listed, what is in it, and the directories leading to it
Stuck(f, top) ==
    {q \in DOMAIN f :
        /\ IsPrefix(top, q)
        /\ \E d \in DOMAIN f :
              /\ IsPrefix(top, d)
              /\ f[d].kind = "dir" /\ ~Readable(f[d]) /\ Children(f, d) # {}
              /\ (IsPrefix(q, d) \/ IsPrefix(d, q))}

\* os.RemoveAll: removes the entry at p and everything below it; a symlink
\* at p is removed, not followed; a missing p is no error; what it cannot
\* remove is left, the rest is removed, and the first error is returned
RemoveAll(f, p) ==
    LET r == Lookup(f, p, FALSE)
        stuck == Stuck(f, r.path)
        gone == {q \in DOMAIN f : IsPrefix(r.path, q) /\ q \notin stuck}
        left == [q \in DOMAIN f \ gone |-> f[q]]
    IN  IF r.err = "ENOENT" THEN Ok(f)
        ELSE IF r.err # "" THEN Fail(f, r.err)
        ELSE IF stuck = {} THEN Did(left, "remove", r.path)
        ELSE [fs |-> left, err |-> "EACCES",
              log |-> IF gone = {} THEN <<>> ELSE <<[op |-> "remove", path |-> r.path]>>]

\* the entries of a directory as os.File.Readdir lists them (the order is
\* the directory's own; one fixed order is modelled)
RECURSIVE Readdir(_)
Readdir(S) ==
    IF S = {} THEN <<>>
    ELSE LET q == CHOOSE q \in S : TRUE IN <<q>> \o Readdir(S \ {q})

(***************************************************************************)
(* The program.                                                            *)
(***************************************************************************)

\* a declared source: the path string of dfo.yaml, absolute or not
RelSrc(p) == [abs |-> FALSE, p |-> p]
AbsSrc(p) == [abs |-> TRUE, p |-> p]

\* filepath.IsAbs
IsAbs(src) == src.abs

\* filepath.Join(dir, src): joins and cleans, the leading separator of an
\* absolute src is only one more separator
Join(dir, src) == dir \o src.p

\* time.Now().MarshalText() as the last component of the directory name
BackupName(t) == "dfo_backup_" \o ToString(t)

\* getBackupDirName without the memo: a new name from the clock at each call
getBackupDirNameNoMemo(bd, cfg, t) ==
    cfg.WorkDir \o <<"backups", BackupName(t)>>

\* dfoState.getBackupDirName: the value left in dfo.backupDir
getBackupDirName(bd, cfg, t) ==
    IF bd # <<>> THEN bd
    ELSE cfg.WorkDir \o <<"backups", BackupName(t)>>

\* createBackupDir taking an existing directory for an error
createBackupDirStrict(f, cfg, bd) ==
    IF cfg.Noop THEN Ok(f) ELSE Mkdir(f, bd, Perm0755)

\* createBackupDir without the dry-run guard
createBackupDirNoNoop(f, cfg, bd) ==
    LET mk == Mkdir(f, bd, Perm0755)
    IN  IF IsExist(mk.err) THEN Ok(f) ELSE mk

\* dfoState.createBackupDir
createBackupDir(f, cfg, bd) ==
    IF cfg.Noop THEN Ok(f)
    ELSE LET mk == Mkdir(f, bd, Perm0755)
         IN  IF IsExist(mk.err) THEN Ok(f) ELSE mk

\* fileNeedsUpdating: the path the link destination is compared with
needsAbsSrc(cfg, newSrc) == Join(cfg.RepoDir, newSrc)

\* fileNeedsUpdating taking every error of os.Lstat for a missing file
fileNeedsUpdatingAnyErr(f, cfg, path, newSrc) ==
    LET targetPath == cfg.HomeDir \o path
        fi == Lstat(f, targetPath)
        rl == Readlink(f, targetPath)
        absSrc == needsAbsSrc(cfg, newSrc)
    IN  IF fi.err # "" THEN [needs |-> TRUE, err |-> ""]
        ELSE IF fi.node.kind = "symlink"
        THEN IF rl.err # "" THEN [needs |-> FALSE, err |-> rl.err]
             ELSE IF absSrc = rl.dest THEN [needs |-> FALSE, err |-> ""]
             ELSE [needs |-> TRUE, err |-> ""]
        ELSE [needs |-> TRUE, err |-> ""]

\* fileNeedsUpdating: [needs, err]
fileNeedsUpdating(f, cfg, path, newSrc) ==
    LET targetPath == cfg.HomeDir \o path
        fi == Lstat(f, targetPath)
        rl == Readlink(f, targetPath)
        absSrc == needsAbsSrc(cfg, newSrc)
    IN  IF fi.err # ""
        THEN IF IsNotExist(fi.err) THEN [needs |-> TRUE, err |-> ""]
             ELSE [needs |-> FALSE, err |-> fi.err]
        ELSE IF fi.node.kind = "symlink"
        THEN IF rl.err # "" THEN [needs |-> FALSE, err |-> rl.err]
             ELSE IF absSrc = rl.dest THEN [needs |-> FALSE, err |-> ""]
             ELSE [needs |-> TRUE, err |-> ""]
        ELSE [needs |-> TRUE, err |-> ""]

\* copyDir, lines 173-174: the entries of the source; the error of os.Open
\* is dropped and the one of Readdir is never read, so a source that cannot
\* be opened has no entries and no error
copyDirObjects(f, srcPath) ==
    LET dir == Open(f, srcPath)
    IN  IF dir.err # "" THEN [err |-> "", objects |-> <<>>]
        ELSE [err |-> "", objects |-> Readdir(Children(f, dir.path))]

\* copyDir: MkdirAll of the destination with the mode of the source, then
\* every entry of the source: a directory recursively, anything else by
\* os.Link
RECURSIVE copyDir(_, _, _)
RECURSIVE copyEntries(_, _, _, _)

\* copyDir, the body of the loop: one entry of the source
copyEntry(f, srcPath, destPath, obj) ==
    LET name == obj[Len(obj)]
        srcFile == Append(srcPath, name)
        destFile == Append(destPath, name)
    IN  IF f[obj].kind = "dir"
        THEN copyDir(f, srcFile, destFile)
        ELSE Link(f, srcFile, destFile)

\* copyDir, the loop: the first error ends it
copyRest(one, srcPath, destPath, objects) ==
    IF one.err # "" THEN one
    ELSE Then(one, copyEntries(one.fs, srcPath, destPath, objects))

copyEntries(f, srcPath, destPath, objects) ==
    IF objects = <<>> THEN Ok(f)
    ELSE copyRest(copyEntry(f, srcPath, destPath, Head(objects)),
                  srcPath, destPath, Tail(objects))

\* copyDir after its MkdirAll: the entries are read and copied
copyDirInto(mk, srcPath, destPath) ==
    IF mk.err # "" THEN mk
    ELSE Then(mk, copyEntries(mk.fs, srcPath, destPath,
                              copyDirObjects(mk.fs, srcPath).objects))

copyDir(f, srcPath, destPath) ==
    LET srcInfo == Stat(f, srcPath)
    IN  IF srcInfo.err # "" THEN Fail(f, srcInfo.err)
        ELSE copyDirInto(MkdirAll(f, destPath, srcInfo.node.perm),
                         srcPath, destPath)

\* backupFile, lines 94-114, mk being the outcome of its os.MkdirAll and fi
\* what os.Stat returned for the source
backupCopy(mk, fi, cfg, srcPath, targetBackupPath) ==
    IF mk.err # "" \/ cfg.Noop THEN mk
    ELSE IF fi.err # "" THEN [mk EXCEPT !.err = "panic"]
    ELSE Then(mk, IF fi.node.kind = "dir"
                  THEN copyDir(mk.fs, srcPath, targetBackupPath)
                  ELSE Link(mk.fs, srcPath, targetBackupPath))

\* dfoState.backupFile, bd being dfo.getBackupDirName().  os.Stat returns a
\* nil FileInfo with any error; only ENOENT returns early, so after another
\* error fi.IsDir() dereferences nil and the program panics.
backupFile(f, cfg, bd, path) ==
    LET srcPath == cfg.HomeDir \o path
        targetBackupPath == bd \o path
        targetDir == Parent(targetBackupPath)
        fi == Stat(f, srcPath)
        cb == createBackupDir(f, cfg, bd)
    IN  IF IsNotExist(fi.err) THEN Ok(f)
        ELSE IF cb.err # "" THEN cb
        ELSE Then(cb, backupCopy(IF cfg.Noop THEN Ok(cb.fs)
                                 ELSE MkdirAll(cb.fs, targetDir, Perm0755),
                                 fi, cfg, srcPath, targetBackupPath))

\* replaceFile backing up whatever the Backup setting says
replaceBackupAlways(f, cfg, bd, target) == backupFile(f, cfg, bd, target)

\* replaceFile ensuring the backup directory before it knows whether there is
\* anything to back up
replaceBackupEager(f, cfg, bd, target) ==
    LET cb == createBackupDir(f, cfg, bd)
        bk == backupFile(cb.fs, cfg, bd, target)
    IN  IF ~cfg.Backup THEN Ok(f)
        ELSE IF cb.err # "" THEN cb
        ELSE [fs |-> bk.fs, err |-> bk.err, log |-> cb.log \o bk.log]

\* replaceFile going on when the backup has failed
replaceBackupNoError(f, cfg, bd, target) ==
    IF cfg.Backup THEN [backupFile(f, cfg, bd, target) EXCEPT !.err = ""] ELSE Ok(f)

\* dfoState.replaceFile, first step: the backup
replaceBackup(f, cfg, bd, target) ==
    IF cfg.Backup THEN backupFile(f, cfg, bd, target) ELSE Ok(f)

\* replaceFile going on whatever os.RemoveAll returned
replaceRemoveAnyErr(f, cfg, target) ==
    LET rm == RemoveAll(f, cfg.HomeDir \o target)
    IN  IF cfg.Noop THEN Ok(f)
        ELSE [fs |-> rm.fs, err |-> "", log |-> rm.log]

\* dfoState.replaceFile, second step: deleting the target
replaceRemove(f, cfg, target) ==
    LET rm == RemoveAll(f, cfg.HomeDir \o target)
    IN  IF cfg.Noop THEN Ok(f)
        ELSE IF rm.err # "" /\ ~IsNotExist(rm.err) THEN rm
        ELSE [fs |-> rm.fs, err |-> "", log |-> rm.log]

\* dfoState.replaceFile, third step: the directory holding the target
replaceMkdir(f, cfg, target) ==
    IF cfg.Noop THEN Ok(f)
    ELSE MkdirAll(f, Parent(cfg.HomeDir \o target), Perm0755)

\* dfoState.replaceFile: the path written into the symlink
replaceAbsSrc(cfg, src) ==
    IF ~IsAbs(src) THEN Join(cfg.RepoDir, src) ELSE src.p

\* dfoState.replaceFile, last step: the symlink
replaceSymlink(f, cfg, target, src, ino) ==
    IF cfg.Noop THEN Ok(f)
    ELSE Symlink(f, replaceAbsSrc(cfg, src), cfg.HomeDir \o target, ino)


(***************************************************************************)
(* Inputs: the configuration main has built, the filesystem after          *)
(* initWorkDir (work directory, backups/ and the repository exist), and    *)
(* the pairs of dfo.yaml.                                                  *)
(***************************************************************************)
HomeDir == <<"h">>
DefaultWorkDir == HomeDir \o <<".dfo">>
DefaultRepoDir == DefaultWorkDir \o <<"dotfiles">>

\* dfoConfig after setDefaults, loadConfig and initFromParams
Configs ==
    {[HomeDir |-> HomeDir, WorkDir |-> DefaultWorkDir, RepoDir |-> DefaultRepoDir,
      GitRepo |-> "", Noop |-> n, Backup |-> b, UpdateGit |-> TRUE] :
        n \in BOOLEAN, b \in BOOLEAN}

FsOf(S) == [p \in {e[1] : e \in S} |-> (CHOOSE e \in S : e[1] = p)[2]]

\* what is on disk whatever the home directory holds: the work directory
\* with backups/ and the repository (a directory s with a file x, a file t),
\* and a file /e outside of both
BaseEntries ==
    { <<<<>>, DirNode(Perm0755)>>,
      <<HomeDir, DirNode(Perm0755)>>,
      <<DefaultWorkDir, DirNode(Perm0755)>>,
      <<DefaultWorkDir \o <<"backups">>, DirNode(Perm0755)>>,
      <<DefaultRepoDir, DirNode(Perm0755)>>,
      <<DefaultRepoDir \o <<"s">>, DirNode(Perm0755)>>,
      <<DefaultRepoDir \o <<"s", "x">>, FileNode(1)>>,
      <<DefaultRepoDir \o <<"t">>, FileNode(2)>>,
      <<<<"e">>, FileNode(3)>> }

\* what $HOME/a can be before the first run: nothing, a file, a directory
\* with a file and a subdirectory (both of mode 0700, or of modes 0775 and
\* 0300, a directory its owner cannot list), or a symlink to the directory
\* s of the repository, to its file t, to /e, to nothing, or to itself
ShapesA ==
    { {},
      { <<HomeDir \o <<"a">>, FileNode(4)>> },
      { <<HomeDir \o <<"a">>, DirNode(448)>>,
        <<HomeDir \o <<"a", "x">>, FileNode(5)>>,
        <<HomeDir \o <<"a", "d">>, DirNode(448)>>,
        <<HomeDir \o <<"a", "d", "y">>, FileNode(6)>> },
      { <<HomeDir \o <<"a">>, DirNode(509)>>,
        <<HomeDir \o <<"a", "x">>, FileNode(5)>>,
        <<HomeDir \o <<"a", "d">>, DirNode(192)>>,
        <<HomeDir \o <<"a", "d", "y">>, FileNode(6)>> },
      { <<HomeDir \o <<"a">>, SymNode(DefaultRepoDir \o <<"s">>, 8)>> },
      { <<HomeDir \o <<"a">>, SymNode(DefaultRepoDir \o <<"t">>, 8)>> },
      { <<HomeDir \o <<"a">>, SymNode(<<"e">>, 8)>> },
      { <<HomeDir \o <<"a">>, SymNode(<<"gone">>, 8)>> },
      { <<HomeDir \o <<"a">>, SymNode(HomeDir \o <<"a">>, 8)>> } }

\* what $HOME/b can be before the first run
ShapesB ==
    { {},
      { <<HomeDir \o <<"b">>, FileNode(7)>> },
      { <<HomeDir \o <<"b">>, SymNode(DefaultRepoDir \o <<"t">>, 9)>> },
      { <<HomeDir \o <<"b">>, SymNode(<<"e">>, 9)>> },
      { <<HomeDir \o <<"b">>, SymNode(<<"gone">>, 9)>> } }

InitialFilesystems == {FsOf(BaseEntries \cup a \cup b) : a \in ShapesA, b \in ShapesB}

\* the pairs a dfo.yaml can declare, target: source
PairPool ==
    << [dst |-> <<"a">>, src |-> RelSrc(<<"s">>)],
       [dst |-> <<"a">>, src |-> AbsSrc(<<"e">>)],
       [dst |-> <<"b">>, src |-> RelSrc(<<"t">>)],
       [dst |-> <<"b">>, src |-> AbsSrc(<<"e">>)],
       [dst |-> <<"a", "x">>, src |-> RelSrc(<<"t">>)] >>

\* the pairs of PairPool with the indices in S, in the order of the file
RECURSIVE Pick(_)
Pick(S) ==
    IF S = {} THEN <<>>
    ELSE LET m == CHOOSE m \in S : \A n \in S : m <= n
         IN  <<PairPool[m]>> \o Pick(S \ {m})

\* dfo.yaml is a mapping: 1..MaxPairs pairs, every target at most once
Declarations ==
    {Pick(S) : S \in {S \in SUBSET (1..Len(PairPool)) :
        /\ S # {}
        /\ Cardinality(S) <= MaxPairs
        /\ \A m, n \in S : m # n => PairPool[m].dst # PairPool[n].dst}}

\* the orders in which ranging over the map m can yield the pairs of d
MapOrders(d) ==
    {[k \in 1..Len(d) |-> d[pi[k]]] : pi \in Permutations(1..Len(d))}

\* what the process is started with.  The umask is 0 or 022.  simplelog is
\* not part of the sources: its Fatal logger ends the process, which is
\* what the specification says of fatal errors.
Inputs == {[umask |-> u, fatalExits |-> TRUE] : u \in {0, 18}}

Tag(log, k) ==
    [j \in 1..Len(log) |-> [op |-> log[j].op, path |-> log[j].path, pair |-> k]]

Init ==
    /\ fs \in InitialFilesystems
    /\ config \in Configs
    /\ decl \in Declarations
    /\ dotfiles = <<>>
    /\ backupDir = <<>>
    /\ pc = "start"
    /\ i = 1
    /\ now = 0
    /\ nextIno = 10
    /\ run = 1
    /\ ops = <<>>
    /\ seen = <<>>
    /\ fs0 = fs
    /\ startedAt = 0
    /\ envDeletes = 0
    /\ errs = <<>>
    /\ input \in Inputs

\* main not evaluating getBackupDirName before the loop
mainStartBackupDirLazy(bd, cfg, t) == bd

\* main, line 347: the debug line evaluates dfo.getBackupDirName()
mainStartBackupDir(bd, cfg, t) == getBackupDirName(bd, cfg, t)

\* main, up to the loop: the pairs are appended in the order the map yields
\* them, then the debug line
Start ==
    /\ pc = "start"
    /\ dotfiles' \in MapOrders(decl)
    /\ backupDir' = mainStartBackupDir(backupDir, config, now)
    /\ pc' = "inspect"
    /\ i' = 1
    /\ now' = now + 1
    /\ UNCHANGED <<fs, config, decl, nextIno, run, ops, seen, fs0, startedAt, envDeletes, errs,
                   input>>

\* a loop that skips every other pair
mainNextIndexSkip(k) == k + 2

\* main: the index of the pair the loop takes after pair k
mainNextIndex(k) == k + 1

Advance(k) ==
    /\ i' = mainNextIndex(k)
    /\ pc' = IF mainNextIndex(k) \in 1..Len(dotfiles) THEN "inspect" ELSE "done"

\* log.Fatal of the standard library: prints, then os.Exit(1)
logFatal == "fatal"

\* simplelog.Fatal.Println and simplelog.Fatal.Printf: the program logs its
\* fatal errors through them and has no code for what follows; exits tells
\* whether the call ends the process, to is where main is when it returns
simplelogFatal(exits, to) == IF exits THEN "fatal" ELSE to

\* a loop that takes an inspection error for "no update needed"
mainAfterInspectNoFatal(err, needsUpdate) ==
    IF ~needsUpdate THEN "next" ELSE "backup"

\* main, lines 350-358: where main is after fileNeedsUpdating returned;
\* "next" is the following pair of the loop
mainAfterInspect(err, needsUpdate) ==
    IF err # "" THEN logFatal
    ELSE IF ~needsUpdate THEN "next"
    ELSE "backup"

\* main is at position to, "next" being the following pair of the loop
Goto(to) ==
    IF to = "next" THEN Advance(i) ELSE pc' = to /\ i' = i

\* the error a step returned, in the history
Errs(step, err) ==
    IF err = "" THEN errs
    ELSE Append(errs, [pair |-> i, step |-> step, err |-> err])

\* main, the head of the loop body: fileNeedsUpdating and what follows it
Inspect ==
    /\ pc = "inspect"
    /\ LET file == dotfiles[i]
           r == fileNeedsUpdating(fs, config, file.dst, file.src)
       IN  /\ seen' = Append(seen, [pair |-> i, before |-> fs, needs |-> r.needs,
                                    err |-> r.err, at |-> now])
           /\ errs' = Errs("inspect", r.err)
           /\ Goto(mainAfterInspect(r.err, r.needs))
    /\ now' = now + 1
    /\ UNCHANGED <<fs, config, decl, dotfiles, backupDir, nextIno, run, ops, fs0,
                   startedAt, envDeletes, input>>

\* main, lines 360-363, after a step of replaceFile: without error
\* replaceFile goes on to its step next; an error is returned to main, which
\* hands it to simplelog.Fatal.Println at the end of the loop body; the nil
\* dereference of backupFile ends the process
Outcome(err, next) ==
    IF err = "panic" THEN "panic"
    ELSE IF err # "" THEN simplelogFatal(input.fatalExits, "next")
    ELSE next

\* main, lines 360-363: what a step of replaceFile leaves, r being its
\* outcome and next the step replaceFile goes on to
Step(step, r, next) ==
    /\ fs' = r.fs
    /\ ops' = ops \o Tag(r.log, i)
    /\ errs' = Errs(step, r.err)
    /\ Goto(Outcome(r.err, next))

\* replaceFile, lines 118-125
Backup ==
    /\ pc = "backup"
    /\ LET bd == IF config.Backup THEN getBackupDirName(backupDir, config, now)
                 ELSE backupDir
       IN  /\ backupDir' = bd
           /\ Step("backup", replaceBackup(fs, config, bd, dotfiles[i].dst),
                   "remove")
    /\ now' = now + 1
    /\ UNCHANGED <<config, decl, dotfiles, nextIno, run, seen, fs0, startedAt,
                   envDeletes, input>>

\* replaceFile, lines 127-135
Remove ==
    /\ pc = "remove"
    /\ Step("remove", replaceRemove(fs, config, dotfiles[i].dst), "mkparent")
    /\ now' = now + 1
    /\ UNCHANGED <<config, decl, dotfiles, backupDir, nextIno, run, seen, fs0,
                   startedAt, envDeletes, input>>

\* replaceFile, lines 137-144
MkParent ==
    /\ pc = "mkparent"
    /\ Step("mkparent", replaceMkdir(fs, config, dotfiles[i].dst), "symlink")
    /\ now' = now + 1
    /\ UNCHANGED <<config, decl, dotfiles, backupDir, nextIno, run, seen, fs0,
                   startedAt, envDeletes, input>>

\* replaceFile, lines 146-157, and the end of the loop body
MkSymlink ==
    /\ pc = "symlink"
    /\ LET r == replaceSymlink(fs, config, dotfiles[i].dst, dotfiles[i].src, nextIno)
       IN  /\ Step("symlink", r, "next")
           /\ nextIno' = nextIno + Len(r.log)
    /\ now' = now + 1
    /\ UNCHANGED <<config, decl, dotfiles, backupDir, run, seen, fs0, startedAt,
                   envDeletes, input>>

\* the program is invoked again, with the same flags and the same dfo.yaml,
\* on the filesystem the previous invocation left
Rerun ==
    /\ pc = "done"
    /\ run < MaxRuns
    /\ run' = run + 1
    /\ pc' = "start"
    /\ dotfiles' = <<>>
    /\ backupDir' = <<>>
    /\ i' = 1
    /\ now' = now + 1
    /\ ops' = <<>>
    /\ seen' = <<>>
    /\ fs0' = fs
    /\ startedAt' = now + 1
    /\ errs' = <<>>
    /\ UNCHANGED <<fs, config, decl, nextIno, envDeletes, input>>

\* something other than the program deletes the backup directory of the
\* running invocation
EnvDeleteBackupDir ==
    /\ pc \in {"inspect", "backup"}
    /\ envDeletes < MaxEnvDeletes
    /\ backupDir # <<>>
    /\ backupDir \in DOMAIN fs
    /\ fs' = RemoveAll(fs, backupDir).fs
    /\ envDeletes' = envDeletes + 1
    /\ UNCHANGED <<config, decl, dotfiles, backupDir, pc, i, now, nextIno, run, ops,
                   seen, fs0, startedAt, errs,
                   input>>

\* something other than the program deletes backups/, the directory of all
\* backup directories that initWorkDir made sure of
EnvDeleteBackups ==
    /\ pc \in {"inspect", "backup"}
    /\ envDeletes < MaxEnvDeletes
    /\ config.WorkDir \o <<"backups">> \in DOMAIN fs
    /\ fs' = RemoveAll(fs, config.WorkDir \o <<"backups">>).fs
    /\ envDeletes' = envDeletes + 1
    /\ UNCHANGED <<config, decl, dotfiles, backupDir, pc, i, now, nextIno, run, ops,
                   seen, fs0, startedAt, errs, input>>

Next == Start \/ Inspect \/ Backup \/ Remove \/ MkParent \/ MkSymlink \/ Rerun

Spec == Init /\ [][Next]_vars

NextEnv == Next \/ EnvDeleteBackupDir \/ EnvDeleteBackups

SpecEnv == Init /\ [][NextEnv]_vars


(***************************************************************************)
(* The start of main: setDefaults, loadConfig, initFromParams, initWorkDir *)
(* and the reading of dfo.yaml, from a process that has only its flags,    *)
(* its environment and the disk.                                           *)
(***************************************************************************)

\* the zero value of dfoConfig
ZeroConfig ==
    [HomeDir |-> <<>>, WorkDir |-> <<>>, RepoDir |-> <<>>, GitRepo |-> "",
     Noop |-> FALSE, Backup |-> FALSE, UpdateGit |-> FALSE]

\* dfoConfig.setDefaults, home being $HOME
setDefaults(c, home) ==
    [c EXCEPT !.HomeDir = home,
              !.Backup = TRUE,
              !.WorkDir = home \o <<".dfo">>,
              !.RepoDir = home \o <<".dfo">> \o <<"dotfiles">>,
              !.UpdateGit = TRUE]

\* settings given by config.yaml or by the flags: the names that are given
\* and their values; c with the given ones written over it
Override(c, s) ==
    [k \in DOMAIN c |-> IF k \in s.given THEN s.val[k] ELSE c[k]]

Given(names, val) == [given |-> names, val |-> val]

\* ioutil.ReadFile: the error of opening and reading the file at p
ReadFile(f, p) ==
    LET r == Lookup(f, p, TRUE)
    IN  IF r.err # "" THEN r.err
        ELSE IF f[r.path].kind = "dir" THEN "EISDIR"
        ELSE ""

\* the error of reading config.yaml and unmarshalling it, file telling
\* what the file on disk is like
loadConfigRead(f, c, file) ==
    LET rd == ReadFile(f, c.WorkDir \o <<"config.yaml">>)
    IN  IF rd # "" THEN rd
        ELSE IF file.state = "unreadable" THEN "EACCES"
        ELSE IF file.state = "unparseable" THEN "yaml"
        ELSE ""

\* loadConfig as the earlier variant has it: a missing file is the error,
\* any other error of reading is dropped
loadConfigEarlier(f, c, file) ==
    LET err == loadConfigRead(f, c, file)
    IN  IF err = "yaml" THEN [config |-> c, err |-> err]
        ELSE IF err # ""
        THEN [config |-> c, err |-> IF ~IsNotExist(err) THEN "" ELSE err]
        ELSE [config |-> Override(c, file), err |-> ""]

\* dfoConfig.loadConfig: [config, err]
loadConfig(f, c, file) ==
    LET err == loadConfigRead(f, c, file)
    IN  IF err # ""
        THEN [config |-> c, err |-> IF IsNotExist(err) THEN "" ELSE err]
        ELSE [config |-> Override(c, file), err |-> ""]

\* dfoConfig.initFromParams: every flag has the current value as its
\* default, flag.Parse writes the flags of the command line
initFromParams(c, flags) == Override(c, flags)

\* what a clone of the dotfiles repository holds
RepoTree(repo) ==
    { <<repo \o <<"s">>, DirNode(Perm0755)>>,
      <<repo \o <<"s", "x">>, FileNode(1)>>,
      <<repo \o <<"t">>, FileNode(2)>>,
      <<repo \o <<"dfo.yaml">>, FileNode(10)>> }

\* initGitRepo: git clone GitRepo RepoDir, then the submodules.  git fails
\* on an empty repository argument; with a repository, git tells whether
\* it succeeds
initGitRepo(f, cfg, git) ==
    LET mk == MkdirAll(f, cfg.RepoDir, Perm0755)
    IN  IF cfg.GitRepo = "" \/ git = "fail" THEN Fail(f, "git")
        ELSE IF mk.err # "" THEN Fail(f, "git")
        ELSE [fs |-> mk.fs @@ FsOf(RepoTree(cfg.RepoDir)), err |-> "",
              log |-> mk.log \o <<[op |-> "clone", path |-> cfg.RepoDir]>>]

\* updateGitRepo: git pull and the submodules, run in RepoDir
updateGitRepo(f, cfg, git) ==
    IF Stat(f, cfg.RepoDir).node.kind # "dir" \/ git = "fail" THEN Fail(f, "git")
    ELSE Ok(f)

\* initWorkDir that does not look for the repository
initWorkDirRepoNoCheck(f, cfg, inp) == Ok(f)

\* initWorkDir, lines 232-250: the repository is cloned when RepoDir does
\* not exist; err "exit" is the process ended by simplelog.Fatal.Printf
initWorkDirRepo(f, cfg, inp) ==
    LET st == Stat(f, cfg.RepoDir)
    IN  IF st.err = "" THEN Ok(f)
        ELSE IF ~IsNotExist(st.err) THEN Fail(f, st.err)
        ELSE IF cfg.GitRepo = "" /\ simplelogFatal(inp.fatalExits, "clone") = "fatal"
        THEN Fail(f, "exit")
        ELSE initGitRepo(f, cfg, inp.git)

\* initWorkDir, lines 252-262, rp being the outcome of what precedes
initWorkDirUpdate(rp, cfg, inp) ==
    IF rp.err # "" THEN rp
    ELSE Then(rp, IF cfg.UpdateGit THEN updateGitRepo(rp.fs, cfg, inp.git)
                  ELSE Ok(rp.fs))

\* initWorkDir, lines 227-262, mk being the outcome of the os.MkdirAll of
\* the backups directory
initWorkDirClone(mk, cfg, inp) ==
    IF mk.err # "" THEN mk
    ELSE Then(mk, initWorkDirUpdate(initWorkDirRepo(mk.fs, cfg, inp), cfg, inp))

\* initWorkDir, lines 227-262, mk being the outcome of the os.MkdirAll of
\* WorkDir
initWorkDirBackups(mk, cfg, inp) ==
    IF mk.err # "" THEN mk
    ELSE Then(mk, initWorkDirClone(
                      MkdirAll(mk.fs, cfg.WorkDir \o <<"backups">>, Perm0755),
                      cfg, inp))

\* dfoState.initWorkDir
initWorkDir(f, cfg, inp) ==
    initWorkDirBackups(MkdirAll(f, cfg.WorkDir, Perm0755), cfg, inp)

\* another work directory a flag or config.yaml can name
OtherWorkDir == <<"w">>

\* the settings a config.yaml or a command line can give
Settings ==
    { Given({}, ZeroConfig),
      Given({"Noop"}, [ZeroConfig EXCEPT !.Noop = TRUE]),
      Given({"Noop"}, [ZeroConfig EXCEPT !.Noop = FALSE]),
      Given({"Backup"}, [ZeroConfig EXCEPT !.Backup = FALSE]),
      Given({"UpdateGit"}, [ZeroConfig EXCEPT !.UpdateGit = FALSE]),
      Given({"GitRepo"}, [ZeroConfig EXCEPT !.GitRepo = "url"]),
      Given({"WorkDir"}, [ZeroConfig EXCEPT !.WorkDir = OtherWorkDir]) }

\* config.yaml: missing, unreadable, not YAML, or settings
ConfigFiles ==
    {[state |-> st, given |-> {}, val |-> ZeroConfig] :
        st \in {"absent", "unreadable", "unparseable"}}
    \cup {[state |-> "ok", given |-> g.given, val |-> g.val] : g \in Settings}

\* the process at its start: umask 022, its flags, what config.yaml is
\* like, whether git succeeds when given a repository, and whether
\* simplelog.Fatal ends the process
BootInputs ==
    {[umask |-> 18, fatalExits |-> x, file |-> cf, flags |-> fl, git |-> g] :
        x \in BOOLEAN, cf \in ConfigFiles, fl \in Settings, g \in {"ok", "fail"}}

\* the disk at the start of the process: the home directory with one of
\* three things at $HOME/a; with or without the work directory of earlier
\* runs (backups/ and the clone of the repository); config.yaml in the
\* default work directory unless it is missing
BootFilesystems(file) ==
    LET base == { <<<<>>, DirNode(Perm0755)>>, <<HomeDir, DirNode(Perm0755)>>,
                  <<<<"e">>, FileNode(3)>> }
        work == { <<DefaultWorkDir, DirNode(Perm0755)>> }
        cfgf == { <<DefaultWorkDir \o <<"config.yaml">>, FileNode(11)>> }
        repo == { <<DefaultWorkDir \o <<"backups">>, DirNode(Perm0755)>>,
                  <<DefaultRepoDir, DirNode(Perm0755)>> }
                \cup RepoTree(DefaultRepoDir)
        homes == { {},
                   { <<HomeDir \o <<"a">>, FileNode(4)>> },
                   { <<HomeDir \o <<"a">>, SymNode(<<"e">>, 8)>> } }
    IN  {FsOf(base \cup a \cup w) :
            a \in homes,
            w \in IF file.state = "absent"
                  THEN { {}, work \cup repo }
                  ELSE { work \cup cfgf, work \cup cfgf \cup repo }}

\* the dfo.yaml of the repository
BootDeclarations == {Pick({1}), Pick({1, 3})}

InitBoot ==
    /\ input \in BootInputs
    /\ fs \in BootFilesystems(input.file)
    /\ config = ZeroConfig
    /\ decl \in BootDeclarations
    /\ dotfiles = <<>>
    /\ backupDir = <<>>
    /\ pc = "setDefaults"
    /\ i = 1
    /\ now = 0
    /\ nextIno = 20
    /\ run = 1
    /\ ops = <<>>
    /\ seen = <<>>
    /\ fs0 = fs
    /\ startedAt = 0
    /\ envDeletes = 0
    /\ errs = <<>>

\* main, line 312
SetDefaults ==
    /\ pc = "setDefaults"
    /\ config' = setDefaults(config, HomeDir)
    /\ pc' = "loadConfig"
    /\ now' = now + 1
    /\ UNCHANGED <<fs, decl, dotfiles, backupDir, i, nextIno, run, ops, seen, fs0,
                   startedAt, envDeletes, errs, input>>

\* main, lines 314-317
LoadConfig ==
    /\ pc = "loadConfig"
    /\ LET r == loadConfig(fs, config, input.file)
       IN  /\ config' = r.config
           /\ errs' = IF r.err = "" THEN errs
                      ELSE Append(errs, [pair |-> 0, step |-> "loadConfig", err |-> r.err])
           /\ pc' = IF r.err # "" THEN simplelogFatal(input.fatalExits, "initFromParams")
                    ELSE "initFromParams"
    /\ now' = now + 1
    /\ UNCHANGED <<fs, decl, dotfiles, backupDir, i, nextIno, run, ops, seen, fs0,
                   startedAt, envDeletes, input>>

\* main, line 319
InitFromParams ==
    /\ pc = "initFromParams"
    /\ config' = initFromParams(config, input.flags)
    /\ pc' = "initWorkDir"
    /\ now' = now + 1
    /\ UNCHANGED <<fs, decl, dotfiles, backupDir, i, nextIno, run, ops, seen, fs0,
                   startedAt, envDeletes, errs, input>>

\* main, lines 321-323
InitWorkDir ==
    /\ pc = "initWorkDir"
    /\ LET r == initWorkDir(fs, config, input)
       IN  /\ fs' = r.fs
           /\ ops' = ops \o Tag(r.log, 0)
           /\ errs' = IF r.err = "" THEN errs
                      ELSE Append(errs, [pair |-> 0, step |-> "initWorkDir", err |-> r.err])
           /\ pc' = IF r.err # "" THEN logFatal ELSE "readDotfiles"
    /\ now' = now + 1
    /\ UNCHANGED <<config, decl, dotfiles, backupDir, i, nextIno, run, seen, fs0,
                   startedAt, envDeletes, input>>

\* main, lines 331-341: dfo.yaml is read from the repository
ReadDotfiles ==
    /\ pc = "readDotfiles"
    /\ LET err == ReadFile(fs, config.RepoDir \o <<"dfo.yaml">>)
       IN  /\ errs' = IF err = "" THEN errs
                      ELSE Append(errs, [pair |-> 0, step |-> "readDotfiles", err |-> err])
           /\ pc' = IF err # "" THEN logFatal ELSE "start"
    /\ now' = now + 1
    /\ UNCHANGED <<fs, config, decl, dotfiles, backupDir, i, nextIno, run, ops, seen,
                   fs0, startedAt, envDeletes, input>>

NextBoot ==
    \/ SetDefaults \/ LoadConfig \/ InitFromParams \/ InitWorkDir \/ ReadDotfiles
    \/ Start \/ Inspect \/ Backup \/ Remove \/ MkParent \/ MkSymlink

SpecBoot == InitBoot /\ [][NextBoot]_vars


(***************************************************************************)
(* The loop on a dfo.yaml with a target three levels under the home        *)
(* directory, none of whose parent directories exists, declared alone or   *)
(* with a pair of PairPool; whether simplelog.Fatal ends the process is    *)
(* left open.                                                              *)
(***************************************************************************)
DeepPair == [dst |-> <<"c", "d", "z">>, src |-> RelSrc(<<"t">>)]

DeepDeclarations ==
    { <<DeepPair>>, <<PairPool[1], DeepPair>>, <<PairPool[5], DeepPair>> }

DeepInputs == {[umask |-> u, fatalExits |-> e] : u \in {0, 18}, e \in BOOLEAN}

InitDeep ==
    /\ fs \in InitialFilesystems
    /\ config \in Configs
    /\ decl \in DeepDeclarations
    /\ dotfiles = <<>>
    /\ backupDir = <<>>
    /\ pc = "start"
    /\ i = 1
    /\ now = 0
    /\ nextIno = 10
    /\ run = 1
    /\ ops = <<>>
    /\ seen = <<>>
    /\ fs0 = fs
    /\ startedAt = 0
    /\ envDeletes = 0
    /\ errs = <<>>
    /\ input \in DeepInputs

SpecDeep == InitDeep /\ [][Next]_vars

(***************************************************************************)
(* Vocabulary of the properties.                                           *)
(***************************************************************************)

\* the resolved source of a declared source: itself when absolute, joined
\* onto the repository directory otherwise
ResolveSource(src, repoDir) == IF src.abs THEN src.p ELSE repoDir \o src.p

\* the link state of the target of a pair in filesystem f
LinkState(f, cfg, file) ==
    LET l == Lstat(f, cfg.HomeDir \o file.dst)
    IN  IF l.err = "ENOENT" THEN "Absent"
        ELSE IF l.err # "" THEN "IOError"
        ELSE IF l.node.kind # "symlink" THEN "OtherEntry"
        ELSE IF l.node.dest = ResolveSource(file.src, cfg.RepoDir)
        THEN "CorrectSymlink"
        ELSE "WrongSymlink"

\* the link state pair k of dfo.dotfiles had when the loop inspected it
StateOf(k) == LinkState(seen[k].before, config, dotfiles[k])

\* the filesystem mutations made while pair k was processed
OpsOf(k) == SelectSeq(ops, LAMBDA o : o.pair = k)

CountOps(k, op) == Len(SelectSeq(OpsOf(k), LAMBDA o : o.op = op))

BackupRoot == config.WorkDir \o <<"backups">>

\* the loop has left pair k behind without a fatal error
Completed(k) == k \in 1..Len(seen) /\ (i > k \/ pc = "done")

\* the loop has stopped working on pair k, successfully or not
Stopped(k) == k \in 1..Len(seen) /\ (i > k \/ pc \in {"done", "fatal", "panic"})

\* position of a pair in dfo.yaml
DeclPos(file) == CHOOSE n \in 1..Len(decl) : decl[n] = file


(***************************************************************************)
(* Properties.                                                             *)
(***************************************************************************)

\* C1: with the dry-run flag set the loop mutates nothing, whatever the
\* link state of the targets and whatever the backup flag: the filesystem
\* is the one the run started with and no mutation has been made.
C1_DryRunNeverMutates == config.Noop => (fs = fs0 /\ ops = <<>>)

C1_Witness ==
    /\ config.Noop /\ config.Backup /\ pc = "done"
    /\ \E k \in 1..Len(seen) : StateOf(k) = "OtherEntry" /\ seen[k].needs
    /\ \E k \in 1..Len(seen) : StateOf(k) = "WrongSymlink" /\ seen[k].needs

\* C2: a pair whose target is already a symlink to the resolved source
\* (the source itself when absolute) causes no filesystem mutation.
C2_CorrectSymlinkUntouched ==
    \A k \in 1..Len(seen) : StateOf(k) = "CorrectSymlink" => OpsOf(k) = <<>>

\* C3: with backups enabled and not dry-run, when the backup step of a
\* target in state OtherEntry or WrongSymlink has returned and the target
\* is about to be removed, the original is still in place and a backup
\* artifact exists at backupDir/target (the same inode for a regular file).
C3_BackupBeforeRemoval ==
    (/\ pc = "remove" /\ config.Backup /\ ~config.Noop
     /\ StateOf(i) \in {"OtherEntry", "WrongSymlink"})
    => LET orig == Lstat(seen[i].before, config.HomeDir \o dotfiles[i].dst)
           bak == Lstat(fs, backupDir \o dotfiles[i].dst)
       IN  /\ Lstat(fs, config.HomeDir \o dotfiles[i].dst) = orig
           /\ bak.err = ""
           /\ orig.node.kind = "file" => bak.node = orig.node

\* C4: when a non-dry-run run finishes without error, every declared target
\* is a symlink whose destination is the resolved source of its pair.
C4_AllTargetsLinked ==
    (pc = "done" /\ ~config.Noop)
    => \A k \in 1..Len(decl) : LinkState(fs, config, decl[k]) = "CorrectSymlink"

\* no operation of pair k is a backup operation: nothing is hard-linked and
\* nothing is created under the backup root
NoBackupOps(k) ==
    \A n \in 1..Len(OpsOf(k)) :
        OpsOf(k)[n].op # "link" /\ ~IsPrefix(BackupRoot, OpsOf(k)[n].path)

\* C5 (as stated): not dry-run, once the loop has stopped working on a
\* target that was Absent, exactly one symlink has been created for it and
\* no backup operation has been performed.
C5_AbsentAlwaysOneSymlink ==
    \A k \in 1..Len(seen) :
        (StateOf(k) = "Absent" /\ ~config.Noop /\ Stopped(k))
        => CountOps(k, "symlink") = 1 /\ NoBackupOps(k)

\* C5 (amended): not dry-run, a target that was Absent never causes a backup
\* operation; when replace returns without error exactly one symlink has
\* been created, and it is the entry at home/target pointing to the
\* resolved source; when replace fails no symlink has been created.
C5_AbsentOneSymlinkNoBackup ==
    \A k \in 1..Len(seen) :
        (StateOf(k) = "Absent" /\ ~config.Noop)
        => /\ NoBackupOps(k)
           /\ Completed(k) => CountOps(k, "symlink") = 1
           /\ (Completed(k) /\ Len(seen) = k)
              => LinkState(fs, config, dotfiles[k]) = "CorrectSymlink"
           /\ ~Completed(k) => CountOps(k, "symlink") = 0

C5_Witness ==
    /\ ~config.Noop /\ config.Backup /\ pc = "done"
    /\ \E k \in 1..Len(seen) :
        /\ StateOf(k) = "Absent"
        /\ CountOps(k, "symlink") = 1
        /\ CountOps(k, "mkdir") = 1

\* C6: the path inspection compares with the link destination is the path
\* replace writes into the symlink, and both are the resolved source.
C6_SameResolution ==
    \A k \in 1..Len(dotfiles) :
        CountOps(k, "symlink") > 0
        => /\ needsAbsSrc(config, dotfiles[k].src) = replaceAbsSrc(config, dotfiles[k].src)
           /\ replaceAbsSrc(config, dotfiles[k].src)
                = ResolveSource(dotfiles[k].src, config.RepoDir)

\* mutations happen pair after pair, in the order given by position pos
InOrder(pos(_)) ==
    \A m, n \in 1..Len(ops) : m < n => pos(ops[m].pair) <= pos(ops[n].pair)

SlicePos(k) == k
FilePos(k) == DeclPos(dotfiles[k])

\* C7 (as stated): pairs are processed in the order of the mapping file:
\* every mutation for a pair comes before any mutation for a later pair of
\* dfo.yaml.
C7_DeclarationOrder == InOrder(FilePos)

\* C7 (amended): pairs are processed strictly one at a time in the order of
\* dfo.dotfiles, which is the order ranging over the map yielded and any
\* permutation of the file's pairs: each pair is inspected once, in slice
\* order, its mutations come after its inspection and before any mutation of
\* a later pair, and a finished run has inspected every pair.
C7_SliceOrder ==
    /\ \A k \in 1..Len(seen) : seen[k].pair = k
    /\ \A n \in 1..Len(ops) : ops[n].pair = Len(seen)
                              \/ (ops[n].pair < Len(seen) /\ ops[n].pair < i)
    /\ InOrder(SlicePos)
    /\ pc = "done" => Len(seen) = Len(dotfiles)

C7_Witness ==
    /\ pc = "done" /\ Len(dotfiles) = 2
    /\ dotfiles[1] = decl[2] /\ dotfiles[2] = decl[1]
    /\ OpsOf(1) # <<>> /\ OpsOf(2) # <<>>

\* C8: once computed, the backup directory path does not change during the
\* run, and everything the run creates under the backup root is under that
\* one directory, also when the directory is deleted between two backups.
C8_BackupDirComputedOnce ==
    [][/\ (backupDir # <<>> /\ run' = run) => backupDir' = backupDir
       /\ \A n \in 1..Len(ops') :
            IsPrefix(BackupRoot, ops'[n].path) => IsPrefix(backupDir', ops'[n].path)]_vars

C8_Witness ==
    /\ envDeletes = 1
    /\ Len(SelectSeq(ops, LAMBDA o : o.op = "mkdir" /\ o.path = backupDir)) = 2
    /\ \E m, n \in 1..Len(ops) :
        /\ ops[m].pair # ops[n].pair
        /\ ops[m].op = "link" /\ ops[n].op = "link"

\* pair k needed a backup when it was inspected
NeededBackup(k) == StateOf(k) \in {"OtherEntry", "WrongSymlink"}

\* C9 (as stated): the name is still uncomputed while only entries that
\* need no backup have been processed.
C9_NameComputedLazily ==
    (\A k \in 1..Len(seen) : ~NeededBackup(k)) => backupDir = <<>>

\* C9 (amended): the path is computed before the loop starts: from the first
\* inspection on it is set, and its timestamp is the time main started the
\* loop, whether or not any entry needs a backup.
C9_NameComputedAtStart ==
    pc # "start" => backupDir = BackupRoot \o <<BackupName(startedAt)>>

C9_Witness ==
    /\ pc = "done" /\ seen # <<>>
    /\ \A k \in 1..Len(seen) : ~NeededBackup(k) /\ ~seen[k].needs
    /\ backupDir # <<>>
    /\ backupDir \notin DOMAIN fs

\* C10: whatever the run creates under the backup root is created for an
\* entry that was in state WrongSymlink or OtherEntry, with backups enabled
\* and not in dry-run; CorrectSymlink and Absent entries never cause it.
C10_BackupDirOnlyWhenNeeded ==
    \A n \in 1..Len(ops) :
        IsPrefix(BackupRoot, ops[n].path)
        => /\ NeededBackup(ops[n].pair)
           /\ config.Backup /\ ~config.Noop

\* the directory home/target of pair k resolved to when it was inspected
SourceDir(k) == Lookup(seen[k].before, config.HomeDir \o dotfiles[k].dst, TRUE).path

\* the backup path mirroring the entry q below the directory of pair k
Mirror(k, q) ==
    backupDir \o dotfiles[k].dst \o SubSeq(q, Len(SourceDir(k)) + 1, Len(q))

\* C11: when the backup of a target that is a directory has returned
\* success, every directory of its subtree exists at the mirrored backup
\* path with the same permission bits and every regular file of the subtree
\* is, at the mirrored backup path, the same inode.
C11_DirBackupReplicatesSubtree ==
    (/\ pc = "remove" /\ config.Backup /\ ~config.Noop
     /\ Stat(seen[i].before, config.HomeDir \o dotfiles[i].dst).node.kind = "dir")
    => \A q \in DOMAIN seen[i].before :
         IsPrefix(SourceDir(i), q)
         => LET orig == seen[i].before[q]
                bak == Lstat(fs, Mirror(i, q))
            IN  /\ orig.kind = "dir"
                   => bak.node.kind = "dir" /\ bak.node.perm = orig.perm
                /\ orig.kind = "file" => bak.node = orig

\* C12: every mutation of the loop (mkdir, link, remove, symlink) is made
\* at a path under the home directory or under the backup root, and never
\* at a path inside the repository directory.
C12_NoMutationInRepo ==
    \A n \in 1..Len(ops) :
        /\ IsPrefix(config.HomeDir, ops[n].path) \/ IsPrefix(BackupRoot, ops[n].path)
        /\ ~IsPrefix(config.RepoDir, ops[n].path)

AtCreateBackupDir ==
    /\ pc = "backup" /\ config.Backup
    /\ ~IsNotExist(Stat(fs, config.HomeDir \o dotfiles[i].dst).err)

\* C14 (as stated): createBackupDir succeeds in every case: in dry-run
\* without mutation, otherwise with the backup directory existing
\* afterwards, whether it existed, was absent, or was absent together with
\* backups/.
C14_EnsureAlwaysSucceeds ==
    AtCreateBackupDir
    => LET r == createBackupDir(fs, config, backupDir)
       IN  /\ r.err = ""
           /\ config.Noop => r.fs = fs
           /\ ~config.Noop => Lstat(r.fs, backupDir).node.kind = "dir"

\* C14 (amended): createBackupDir makes the one directory: in dry-run it
\* succeeds without mutation; when the backup directory exists it succeeds
\* without mutation; when it is absent and backups/ exists it creates it and
\* succeeds; when backups/ is absent it fails with ENOENT and creates
\* nothing.
C14_EnsureNeedsParent ==
    AtCreateBackupDir
    => LET r == createBackupDir(fs, config, backupDir)
           there == Lstat(fs, backupDir).node.kind = "dir"
           parent == Lstat(fs, BackupRoot).node.kind = "dir"
       IN  /\ config.Noop => r = Ok(fs)
           /\ (~config.Noop /\ there) => r = Ok(fs)
           /\ (~config.Noop /\ ~there /\ parent)
              => /\ r.err = ""
                 /\ DOMAIN r.fs = DOMAIN fs \cup {backupDir}
                 /\ r.fs[backupDir].kind = "dir"
                 /\ \A q \in DOMAIN fs : r.fs[q] = fs[q]
           /\ (~config.Noop /\ ~parent) => r.err = "ENOENT" /\ r.fs = fs

C14_Witness ==
    /\ pc = "fatal" /\ ~config.Noop /\ config.Backup
    /\ envDeletes = 1 /\ BackupRoot \notin DOMAIN fs
    /\ Len(errs) = 1 /\ errs[1].step = "backup" /\ errs[1].err = "ENOENT"
    /\ errs[1].pair = 2
    /\ \E n \in 1..Len(ops) : ops[n].op = "mkdir" /\ ops[n].path = backupDir

\* the errors loadConfig returned in this run
LoadErrs == SelectSeq(errs, LAMBDA e : e.step = "loadConfig")

\* main is past its configuration steps: initFromParams has returned
Configured ==
    /\ pc \notin {"setDefaults", "loadConfig", "initFromParams"}
    /\ ~(pc = "fatal" /\ errs # <<>> /\ errs[Len(errs)].step = "loadConfig")

\* C15: when the repository directory does not exist and no git repository
\* is declared, the run gets no further than initWorkDir and ends there
\* with a failure: dfo.yaml is not read, no target is inspected, and nothing
\* is backed up, removed or linked.
C15_NoRepoNoRun ==
    (/\ Configured
     /\ IsNotExist(Stat(fs0, config.RepoDir).err)
     /\ config.GitRepo = "")
    => /\ pc \in {"initWorkDir", "fatal"}
       /\ seen = <<>>
       /\ \A n \in 1..Len(ops) : ops[n].pair = 0 /\ ops[n].op = "mkdir"

C15_Witness ==
    /\ pc = "fatal" /\ config.GitRepo = "" /\ ~config.UpdateGit
    /\ IsNotExist(Stat(fs0, config.RepoDir).err)
    /\ Len(errs) = 1 /\ errs[1].step = "initWorkDir"
    /\ Lstat(fs, BackupRoot).node.kind = "dir"

\* the settings the defaults give, written out
DefaultSettings ==
    [HomeDir |-> <<"h">>, WorkDir |-> <<"h", ".dfo">>,
     RepoDir |-> <<"h", ".dfo", "dotfiles">>, GitRepo |-> "",
     Noop |-> FALSE, Backup |-> TRUE, UpdateGit |-> TRUE]

\* C16: loadConfig returns no error and leaves the defaults when
\* config.yaml does not exist, and returns the error when the file cannot
\* be read or parsed; once configuration is complete every setting has the
\* value of its flag when the flag is given, else the value config.yaml
\* gives it when it was loaded, else its default.
C16_ConfigFileOptional ==
    /\ pc \notin {"setDefaults", "loadConfig"}
       => /\ input.file.state \in {"absent", "ok"} => LoadErrs = <<>>
          /\ input.file.state = "unreadable"
             => Len(LoadErrs) = 1 /\ LoadErrs[1].err = "EACCES"
          /\ input.file.state = "unparseable"
             => Len(LoadErrs) = 1 /\ LoadErrs[1].err = "yaml"
    /\ (pc = "initFromParams" /\ input.file.state = "absent")
       => config = DefaultSettings
    /\ Configured
       => \A k \in DOMAIN config :
            config[k] = IF k \in input.flags.given THEN input.flags.val[k]
                        ELSE IF input.file.state = "ok" /\ k \in input.file.given
                        THEN input.file.val[k]
                        ELSE DefaultSettings[k]

C16_Witness ==
    /\ pc = "done" /\ input.file.state = "ok"
    /\ input.file.given = {"Noop"} /\ input.file.val.Noop
    /\ input.flags.given = {"Noop"} /\ ~input.flags.val.Noop
    /\ \E n \in 1..Len(ops) : ops[n].op = "symlink"

\* C17: once configuration is complete the repository directory is
\* WorkDir/dotfiles, whatever work directory the flags or config.yaml
\* gave, and every backup is written under WorkDir/backups.
C17_WorkDirHoldsRepo ==
    Configured
    => /\ config.RepoDir = config.WorkDir \o <<"dotfiles">>
       /\ \A n \in 1..Len(ops) :
            ops[n].op = "link" => IsPrefix(config.WorkDir \o <<"backups">>, ops[n].path)

\* dfoState.replaceFile as one call: its four steps in sequence, the first
\* error returned
replaceFile(f, cfg, bd, target, src, ino) ==
    LET bk == replaceBackup(f, cfg, bd, target)
        rm == replaceRemove(bk.fs, cfg, target)
        mk == replaceMkdir(rm.fs, cfg, target)
        sl == replaceSymlink(mk.fs, cfg, target, src, ino)
    IN  IF bk.err # "" THEN bk
        ELSE IF rm.err # "" THEN [fs |-> rm.fs, err |-> rm.err, log |-> bk.log \o rm.log]
        ELSE IF mk.err # ""
        THEN [fs |-> mk.fs, err |-> mk.err, log |-> bk.log \o rm.log \o mk.log]
        ELSE [fs |-> sl.fs, err |-> sl.err,
              log |-> bk.log \o rm.log \o mk.log \o sl.log]

\* the loop of main from pair k of files on, as one function of the
\* filesystem: the filesystem it leaves, whether it came to its end, and
\* the pairs whose replaceFile came to its end, each as the line it logs,
\* resolved source -> target path
RECURSIVE mainLoop(_, _, _, _, _, _)
mainLoop(f, cfg, bd, files, k, ino) ==
    IF k > Len(files) THEN [fs |-> f, ok |-> TRUE, replaced |-> {}]
    ELSE LET file == files[k]
             nu == fileNeedsUpdating(f, cfg, file.dst, file.src)
             to == mainAfterInspect(nu.err, nu.needs)
             r == replaceFile(f, cfg, bd, file.dst, file.src, ino)
             rest == mainLoop(r.fs, cfg, bd, files, mainNextIndex(k),
                              ino + Len(SelectSeq(r.log, LAMBDA o : o.op = "symlink")))
         IN  IF to = "next" THEN mainLoop(f, cfg, bd, files, mainNextIndex(k), ino)
             ELSE IF to # "backup" THEN [fs |-> f, ok |-> FALSE, replaced |-> {}]
             ELSE IF Outcome(r.err, "next") # "next"
             THEN [fs |-> r.fs, ok |-> FALSE, replaced |-> {}]
             ELSE [rest EXCEPT !.replaced =
                      @ \cup {[src |-> replaceAbsSrc(cfg, file.src),
                               target |-> cfg.HomeDir \o file.dst]}]

\* a filesystem without the inode numbers of its symlinks
SameButInodes(f) ==
    [q \in DOMAIN f |-> IF f[q].kind = "symlink" THEN SymNode(f[q].dest, 0) ELSE f[q]]

\* what a run started now leaves when the map yields the pairs in the
\* order files
RunResult(files) ==
    LET r == mainLoop(fs, config, mainStartBackupDir(<<>>, config, now), files, 1,
                      nextIno)
    IN  [ok |-> r.ok, fs |-> SameButInodes(r.fs)]

\* C18: a run that is not a dry run comes to the same result (success or
\* failure) and leaves the same filesystem in whatever order the map
\* yields the declared pairs.
C18_OrderIrrelevant ==
    (pc = "start" /\ ~config.Noop)
    => \A o1, o2 \in MapOrders(decl) : RunResult(o1) = RunResult(o2)

\* C19: when backupFile fails in the backup step of a pair (creating the
\* backup directory, an intermediate directory, or a hard link), the error
\* is what replaceFile returns and the run stops: every entry that existed
\* before the step is still there unchanged, home/target among them, no
\* symlink is created, and what the backup had written is left where it is.
C19_FailedBackupLeavesTarget ==
    [][(/\ pc = "backup" /\ pc' # "backup" /\ config.Backup
        /\ backupFile(fs, config, backupDir, dotfiles[i].dst).err # "")
       => LET r == backupFile(fs, config, backupDir, dotfiles[i].dst)
          IN  /\ pc' \in {"fatal", "panic"}
              /\ errs' = Append(errs, [pair |-> i, step |-> "backup", err |-> r.err])
              /\ \A q \in DOMAIN fs : q \in DOMAIN fs' /\ fs'[q] = fs[q]
              /\ Lstat(fs', config.HomeDir \o dotfiles[i].dst)
                   = Lstat(fs, config.HomeDir \o dotfiles[i].dst)
              /\ \A n \in 1..Len(ops') :
                   n > Len(ops)
                   => /\ ops'[n].op \in {"mkdir", "link"}
                      /\ IsPrefix(backupDir, ops'[n].path)
                      /\ ops'[n].path \in DOMAIN fs']_vars

C19_Witness ==
    /\ pc = "fatal" /\ ~config.Noop /\ config.Backup
    /\ Len(errs) = 1 /\ errs[1].step = "backup" /\ errs[1].err = "EEXIST"
    /\ \E n \in 1..Len(ops) : ops[n].pair = errs[1].pair /\ ops[n].op = "link"
    /\ CountOps(errs[1].pair, "remove") = 0
    /\ CountOps(errs[1].pair, "symlink") = 0

\* C20: when os.Lstat of home/target, or os.Readlink of a symlink there,
\* fails for another reason than not-found, the inspection of the pair
\* returns that error and no verdict, the run stops at this pair, and nothing
\* is backed up, removed or linked for it; when os.Lstat reports not-found
\* the inspection returns "needs update" and no error.
C20_InspectionErrorAborts ==
    \A k \in 1..Len(seen) :
        LET target == config.HomeDir \o dotfiles[k].dst
            fi == Lstat(seen[k].before, target)
            rl == Readlink(seen[k].before, target)
            failed == IF fi.err # "" THEN ~IsNotExist(fi.err)
                      ELSE fi.node.kind = "symlink" /\ rl.err # ""
        IN  /\ failed
               => /\ seen[k].err = (IF fi.err # "" THEN fi.err ELSE rl.err)
                  /\ ~seen[k].needs
                  /\ pc = "fatal" /\ Len(seen) = k
                  /\ errs = <<[pair |-> k, step |-> "inspect", err |-> seen[k].err]>>
                  /\ OpsOf(k) = <<>>
            /\ IsNotExist(fi.err) => seen[k].needs /\ seen[k].err = ""

C20_Witness ==
    /\ pc = "fatal" /\ ~config.Noop
    /\ Len(seen) = 2 /\ seen[2].err = "ENOTDIR"
    /\ OpsOf(1) # <<>> /\ OpsOf(2) = <<>>
    /\ seen[1].needs /\ seen[1].err = ""
    /\ IsNotExist(Lstat(seen[1].before, config.HomeDir \o dotfiles[1].dst).err)

\* C21: a non-dry-run replaceFile that returns no error for a target whose
\* parent directory did not exist leaves every directory between the home
\* directory and the target in place and the symlink to the resolved source
\* at the target; its removal step goes on to the parent directories when
\* os.RemoveAll returns no error or not-found, and after any other error of
\* os.RemoveAll replaceFile returns that error: the pair gets no parent
\* directory and no symlink.
C21_ReplaceMakesParents ==
    [][LET dst == dotfiles[i].dst
           target == config.HomeDir \o dst
           before == seen[Len(seen)].before
           rm == RemoveAll(fs, target)
       IN  /\ (/\ pc = "symlink" /\ ~config.Noop /\ errs' = errs
               /\ IsNotExist(Stat(before, Parent(target)).err))
              => /\ \A n \in 0..(Len(dst) - 1) :
                      Stat(fs', config.HomeDir \o SubSeq(dst, 1, n)).node.kind = "dir"
                 /\ Lstat(fs', target).node.kind = "symlink"
                 /\ Lstat(fs', target).node.dest
                      = ResolveSource(dotfiles[i].src, config.RepoDir)
           /\ (pc = "remove" /\ ~config.Noop)
              => IF rm.err = "" \/ IsNotExist(rm.err)
                 THEN errs' = errs /\ pc' = "mkparent" /\ i' = i
                 ELSE /\ errs' = Append(errs, [pair |-> i, step |-> "remove",
                                               err |-> rm.err])
                      /\ pc' \notin {"mkparent", "symlink"} \/ i' # i
           /\ pc \in {"mkparent", "symlink"}
              => \A n \in 1..Len(errs) :
                    ~(errs[n].pair = i /\ errs[n].step = "remove")]_vars

C21_Witness ==
    /\ pc = "done" /\ ~config.Noop /\ run = 1
    /\ \E n \in 1..Len(errs) : errs[n].step = "remove" /\ errs[n].err = "EACCES"
    /\ \E k \in 1..Len(seen) :
          /\ dotfiles[k] = DeepPair
          /\ IsNotExist(Stat(seen[k].before, config.HomeDir \o <<"c">>).err)
          /\ IsNotExist(Lstat(seen[k].before, config.HomeDir \o DeepPair.dst).err)
          /\ CountOps(k, "mkdir") = 2 /\ CountOps(k, "remove") = 0
          /\ Lstat(fs, config.HomeDir \o DeepPair.dst).node.kind = "symlink"

\* the entries at and under the physical path p
Under(f, p) == {q \in DOMAIN f : IsPrefix(p, q)}

\* pair k is the last one the loop has finished with
JustDone(k) ==
    \/ i = k + 1 /\ pc = "inspect"
    \/ k = Len(dotfiles) /\ pc = "done"

\* C22: in a run with backups disabled that is not a dry run, replaceFile
\* never enters backupFile and the run changes nothing at or under the
\* backups directory; a pair that needed an update and whose replaceFile has
\* returned without error had the entry at home/target removed with
\* everything under it, when there was one, and got its symlink, and when
\* its replaceFile returns the symlink to the resolved source is what is at
\* home/target.
C22_NoBackupStillReplaces ==
    (~config.Noop /\ ~config.Backup)
    => /\ \A q \in DOMAIN fs \cup DOMAIN fs0 :
            IsPrefix(BackupRoot, q)
            => q \in DOMAIN fs /\ q \in DOMAIN fs0 /\ fs[q] = fs0[q]
       /\ \A n \in 1..Len(ops) :
            ops[n].op # "link" /\ ~IsPrefix(BackupRoot, ops[n].path)
       /\ \A n \in 1..Len(errs) : errs[n].step # "backup"
       /\ \A k \in 1..Len(seen) :
            (seen[k].needs /\ Completed(k))
            => LET target == config.HomeDir \o dotfiles[k].dst
                   was == Lookup(seen[k].before, target, FALSE)
                   l == Lstat(fs, target)
               IN  /\ NoBackupOps(k)
                   /\ CountOps(k, "symlink") = 1
                   /\ CountOps(k, "remove") = (IF was.err = "" THEN 1 ELSE 0)
                   /\ was.err = ""
                      => OpsOf(k)[1] = [op |-> "remove", path |-> was.path,
                                        pair |-> k]
                   /\ JustDone(k)
                      => /\ l.node.kind = "symlink"
                         /\ l.node.dest
                              = ResolveSource(dotfiles[k].src, config.RepoDir)
                         /\ was.err = ""
                            => Under(fs, was.path) = {was.path}

C22_Witness ==
    /\ ~config.Noop /\ ~config.Backup /\ pc = "done" /\ Len(seen) = 2
    /\ seen[1].needs /\ seen[2].needs
    /\ Cardinality(Under(seen[1].before, config.HomeDir \o dotfiles[1].dst)) = 4
    /\ IsNotExist(Lstat(seen[2].before, config.HomeDir \o dotfiles[2].dst).err)
    /\ CountOps(1, "remove") = 1 /\ CountOps(2, "remove") = 0
    /\ Under(fs, BackupRoot) = {BackupRoot}

\* the pairs a run started now goes through replaceFile for, the map
\* yielding the pairs in the order files: with noop the ones it reports,
\* without the ones it replaces
Replaced(files, noop) ==
    mainLoop(fs, [config EXCEPT !.Noop = noop],
             mainStartBackupDir(<<>>, config, now), files, 1, nextIno).replaced

\* C23: started on the same filesystem with the same dfo.yaml, the map
\* yielding the pairs in the same order, a dry run reports a replacement,
\* resolved source -> target, for exactly the pairs that a run that is not
\* a dry run replaces.
C23_DryRunReportsRealRun ==
    pc = "start"
    => \A o \in MapOrders(decl) : Replaced(o, TRUE) = Replaced(o, FALSE)

====
